---------------------------- MODULE Spec2Model ----------------------------
(***************************************************************************)
(* One GetAds bidirectional stream of grpc-playground (C++): the client   *)
(* AdsClient (sender thread, timed collector, getAds) and the server      *)
(* AdsServiceImpl::GetAds (session handler, detached version-3 task),     *)
(* with the AdGenerator ranking function.                                  *)
(*                                                                         *)
(* Time is in milliseconds and advances in steps of TickMs.  A sleep_for  *)
(* is a countdown timer: the sleeper can continue once its timer is 0 and *)
(* not before; nothing forces it to continue at once (sleep_for blocks    *)
(* for AT LEAST the duration, threads are scheduled by the OS).           *)
(*                                                                         *)
(* Strings are sequences of character codes.  Scores are fixed-point, in  *)
(* units of 1/ScoreScale.                                                  *)
(***************************************************************************)
EXTENDS Integers, Sequences, FiniteSets, TLC

\* ------------------------------------------------------------------ bounds
\* Granularity of the clock, in ms.
TickMs == 10
\* Contexts a foreign client writes and AdsLists a foreign server writes.
MaxEnvContexts == 3
MaxEnvAdsLists == 3
\* Sessions opened on one server process.
MaxSessions == 5

\* ------------------------------------------------------- program constants
ContextDelayMs == 50
DeferredDelayMs == 50
GraceDelayMs == 60
MinTimeoutMs == 30
MaxTimeoutMs == 120
MinAds == 5
MaxAds == 10
\* Fixed-point unit of a score: 1.0 is ScoreScale.
ScoreScale == 10000
\* Width of the modelled std::hash and of the modelled mt19937 state.
HashMod == 65536

\* ------------------------------------------------------------------ strings
EmptyString == << >>
Str_tv == <<116, 118>>
Str_B01 == <<66, 48, 49>>
Str_hd == <<104, 100>>

Queries == {Str_tv}
AsinIds == {Str_B01}
Understandings == {EmptyString, Str_hd}

Min(a, b) == IF a < b THEN a ELSE b
Max(a, b) == IF a > b THEN a ELSE b

\* std::to_string of a non-negative integer.
RECURSIVE to_string(_)
to_string(n) ==
    IF n < 10 THEN <<48 + n>> ELSE to_string(n \div 10) \o <<48 + (n % 10)>>

\* operator<< of an integer under std::setfill('0') << std::setw(w).
RECURSIVE ZeroFill(_, _)
ZeroFill(s, w) == IF Len(s) >= w THEN s ELSE ZeroFill(<<48>> \o s, w)

\* std::hash<std::string>: implementation-defined; a polynomial hash of the
\* characters, HashMod wide.
RECURSIVE HashFrom(_, _)
HashFrom(h, s) ==
    IF s = << >> THEN h
    ELSE HashFrom((h * 31 + Head(s)) % HashMod, Tail(s))

hasher(s) == HashFrom(7, s)

\* std::mt19937 gen(seed): the n-th raw draw (n >= 1) of a generator seeded
\* with seed; a linear congruential sequence, HashMod wide.
RECURSIVE Draw(_, _)
Draw(seed, n) ==
    IF n = 0 THEN seed % HashMod
    ELSE (Draw(seed, n - 1) * 25173 + 13849) % HashMod

\* ---------------------------------------------------------------- messages
MkContext(q, a, u) == [query |-> q, asin_id |-> a, understanding |-> u]

Contexts ==
    {MkContext(q, a, u) : q \in Queries, a \in AsinIds, u \in Understandings}

\* A default-constructed AdsList: version 0, no ads.
EmptyAdsList == [version |-> 0, ads |-> << >>]

\* ------------------------------------------------------------- AdGenerator
Clamp(x) == Max(0, Min(ScoreScale, x))

calculateScore(q, a, u, version) ==
    LET base_score == (hasher(q \o a) % 1000) * (ScoreScale \div 1000)
        understanding_boost ==
            IF u # EmptyString
            THEN (hasher(u) % 200) * (ScoreScale \div 1000)
            ELSE 0
        \* 0.7 + version * 0.1, in tenths
        version_multiplier == 7 + version
        final_score == ((base_score + understanding_boost) * version_multiplier) \div 10
    IN  Clamp(final_score)

generateAdId(asin, index) ==
    <<65, 68>> \o ZeroFill(to_string(hasher(asin \o to_string(index)) % 100000000), 8)

generateAds(context, version) ==
    LET seed == hasher(context.query \o context.asin_id \o to_string(version))
        \* first draw: ad_count_dist(5, 10)
        num_ads == MinAds + (Draw(seed, 1) % (MaxAds - MinAds + 1))
        Ad(i) ==
            LET asin == <<66>> \o
                    ZeroFill(to_string(hasher(context.asin_id \o to_string(i)) % 1000000), 6)
                score == calculateScore(context.query, context.asin_id,
                                        context.understanding, version)
                \* draw i + 2: score_variation(-0.1, 0.1)
                variation == (Draw(seed, i + 2) % (2 * (ScoreScale \div 10) + 1))
                                - (ScoreScale \div 10)
            IN  [asin_id |-> asin,
                 ad_id |-> generateAdId(asin, i),
                 score |-> Clamp(score + variation)]
    IN  [version |-> version, ads |-> [k \in 1..num_ads |-> Ad(k - 1)]]


\* ------------------------------------------------------------------- state
VARIABLES
    \* the process-wide session_counter and the session_id local of each
    \* session that has entered GetAds (ads_service_impl.cpp:9, 13)
    session_counter, session_id,
    \* arguments of getAds (ads_client.cpp:15)
    query, asin_id, understanding,
    \* the stream: Contexts and AdsLists written and not yet read, the client's
    \* half-close, a dead call (connection lost or cancelled)
    c2s, s2c, writesDone, callDead,
    \* sender thread (sendContextMessages): position, sleep timer, the stream
    \* operations it has performed
    sndPc, sndTimer, sndLog,
    \* collector (receiveAdsListWithTimeout): position, deadline, time since
    \* startTime, the locals adsListBuffer and currentAdsList, the number of
    \* reads that completed after the deadline, the value returned
    rcvPc, timeoutMs, elapsed, adsListBuffer, currentAdsList, lateReads, result,
    \* which break left the collector's loop: "deadline" (line 144) or "ended"
    \* (line 194)
    stopReason,
    \* getAds: position and the Status of Finish
    cliPc, rpcStatus,
    \* server handler (GetAds): position, locals, the 60 ms timer, the Status
    \* returned, the writes attempted on the server stream, the context_count
    \* at which generateAds threw (0: it did not)
    srvPc, context_count, client_context, ads_out, graceTimer, srvStatus, srvLog,
    throwAt,
    \* detached version-3 thread: position, timer, captured copy of the
    \* Context, its AdsList, what it logged, and whether it touched the
    \* handler's stream or session_timer after the handler returned
    taskPc, taskTimer, task_context, ads_v3, taskReport, taskUseAfterReturn

ctrVars == <<session_counter, session_id>>
inputVars == <<query, asin_id, understanding>>
streamVars == <<c2s, s2c, writesDone, callDead>>
sndVars == <<sndPc, sndTimer, sndLog>>
rcvVars ==
    <<rcvPc, timeoutMs, elapsed, adsListBuffer, currentAdsList, lateReads, result,
      stopReason>>
cliVars == <<cliPc, rpcStatus>>
srvVars ==
    <<srvPc, context_count, client_context, ads_out, graceTimer, srvStatus, srvLog,
      throwAt>>
taskVars == <<taskPc, taskTimer, task_context, ads_v3, taskReport, taskUseAfterReturn>>

vars == <<ctrVars, inputVars, streamVars, sndVars, rcvVars, cliVars, srvVars, taskVars>>

\* ----------------------------------------------------------- the transport
\* The call is over for the client once the server handler has returned its
\* Status or the call is dead.
CallOver == callDead \/ srvStatus # "none"

\* ClientReaderWriter::Write returns false on a call that is over.
ClientWriteOk == ~CallOver
\* ClientReaderWriter::Read returns false when nothing is left to read and
\* the call is over; it blocks while nothing is left and the call is live.
ClientReadEnds == s2c = << >> /\ CallOver
\* Faulty variant of ServerReadEnds: only a half-close ends the reads.
ServerReadEnds_on_half_close_only == c2s = << >> /\ writesDone

\* ServerReaderWriter::Read returns false when nothing is left to read and
\* the client half-closed or the call is dead.
ServerReadEnds == c2s = << >> /\ (writesDone \/ callDead)
\* ServerReaderWriter::Write returns false on a dead call.
ServerWriteOk == ~callDead

\* ------------------------------------------------------------------ client
\* Faulty variant of generateRandomTimeout: the upper bound is excluded.
generateRandomTimeout_half_open == MinTimeoutMs..(MaxTimeoutMs - 1)

\* generateRandomTimeout: what a draw of uniform_int_distribution(30, 120)
\* can return, ads_client.cpp:248-253
generateRandomTimeout == MinTimeoutMs..MaxTimeoutMs

\* The draws whose runs are followed to the end of the call: both endpoints
\* and the midpoint.
TimeoutSamples ==
    {MinTimeoutMs, (MinTimeoutMs + MaxTimeoutMs) \div 2, MaxTimeoutMs}

\* Faulty variant of context1: it carries the caller's understanding.
context1_with_understanding == MkContext(query, asin_id, understanding)

\* context1 and context2 of sendContextMessages.
context1 == MkContext(query, asin_id, EmptyString)
context2 == MkContext(query, asin_id, understanding)

WriteOp(c, ok) == [op |-> "Write", context |-> c, ok |-> ok]
WritesDoneOp == [op |-> "WritesDone", context |-> << >>, ok |-> TRUE]

\* Where the sender goes after stream->Write(context1) and after
\* stream->Write(context2): on false it logs and returns,
\* ads_client.cpp:75-80, 99-104
AfterWrite1(ok) == IF ok THEN "sleep" ELSE "failed"

\* Faulty variant of AfterWrite2: the return after the failed second write is missing.
AfterWrite2_no_return(ok) == "writesdone"

AfterWrite2(ok) == IF ok THEN "writesdone" ELSE "failed"

\* stream->Write(context1), ads_client.cpp:75-80
SendContext1 ==
    /\ sndPc = "write1"
    /\ c2s' = IF ClientWriteOk THEN Append(c2s, context1) ELSE c2s
    /\ sndLog' = Append(sndLog, WriteOp(context1, ClientWriteOk))
    /\ sndPc' = AfterWrite1(ClientWriteOk)
    /\ sndTimer' = IF sndPc' = "sleep" THEN ContextDelayMs ELSE sndTimer
    /\ UNCHANGED <<ctrVars, inputVars, s2c, writesDone, callDead, rcvVars, cliVars, srvVars, taskVars>>

\* std::this_thread::sleep_for(50 ms) returns, ads_client.cpp:84
SenderWake ==
    /\ sndPc = "sleep"
    /\ sndTimer = 0
    /\ sndPc' = "write2"
    /\ UNCHANGED <<ctrVars, inputVars, streamVars, sndTimer, sndLog, rcvVars, cliVars, srvVars, taskVars>>

\* stream->Write(context2), ads_client.cpp:99-104
SendContext2 ==
    /\ sndPc = "write2"
    /\ c2s' = IF ClientWriteOk THEN Append(c2s, context2) ELSE c2s
    /\ sndLog' = Append(sndLog, WriteOp(context2, ClientWriteOk))
    /\ sndPc' = AfterWrite2(ClientWriteOk)
    /\ UNCHANGED <<ctrVars, inputVars, s2c, writesDone, callDead, sndTimer, rcvVars, cliVars, srvVars, taskVars>>

\* stream->WritesDone(), ads_client.cpp:107
HalfClose ==
    /\ sndPc = "writesdone"
    /\ writesDone' = TRUE
    /\ sndLog' = Append(sndLog, WritesDoneOp)
    /\ sndPc' = "done"
    /\ UNCHANGED <<ctrVars, inputVars, c2s, s2c, callDead, sndTimer, rcvVars, cliVars, srvVars, taskVars>>

sendContextMessages == SendContext1 \/ SenderWake \/ SendContext2 \/ HalfClose

\* Faulty variant of DeadlineElapsed: the deadline is taken two ticks late.
DeadlineElapsed_late == elapsed >= timeoutMs + 2 * TickMs

\* The deadline has elapsed: elapsed >= timeoutDuration, ads_client.cpp:137
DeadlineElapsed == elapsed >= timeoutMs

\* Faulty variant of BufferPut: an entry that exists is not overwritten.
BufferPut_keeps_first(buffer, adsList) ==
    [v \in DOMAIN buffer \cup {adsList.version} |->
        IF v \in DOMAIN buffer THEN buffer[v] ELSE adsList]

\* Faulty variant of BufferPut: the buffer holds the latest arrival only.
BufferPut_latest_only(buffer, adsList) ==
    [v \in {adsList.version} |-> adsList]

\* adsListBuffer[version] = adsList on a std::map
BufferPut(buffer, adsList) ==
    [v \in DOMAIN buffer \cup {adsList.version} |->
        IF v = adsList.version THEN adsList ELSE buffer[v]]

\* adsListBuffer.rbegin()->first: the highest key
MaxVersion(buffer) ==
    CHOOSE v \in DOMAIN buffer : \A w \in DOMAIN buffer : w <= v

\* Faulty variant of SelectResult: the most recently read AdsList is returned.
SelectResult_most_recent(buffer, current) ==
    IF DOMAIN buffer # {} THEN current ELSE EmptyAdsList

\* Faulty variant of SelectResult: the buffer counts as empty while it holds one entry.
SelectResult_one_is_empty(buffer, current) ==
    IF Cardinality(DOMAIN buffer) > 1
    THEN buffer[MaxVersion(buffer)]
    ELSE EmptyAdsList

\* The value receiveAdsListWithTimeout returns, ads_client.cpp:213-245
SelectResult(buffer, current) ==
    IF DOMAIN buffer # {}
    THEN buffer[MaxVersion(buffer)]
    ELSE EmptyAdsList

\* timeoutMs = generateRandomTimeout(); startTime = now, ads_client.cpp:121-130
CollectorStartWith(draws) ==
    /\ rcvPc = "start"
    /\ \E t \in draws : timeoutMs' = t
    /\ elapsed' = 0
    /\ rcvPc' = "check"
    /\ UNCHANGED <<ctrVars, inputVars, streamVars, sndVars, adsListBuffer, currentAdsList,
                   lateReads, result, stopReason, cliVars, srvVars, taskVars>>

CollectorStart == CollectorStartWith(generateRandomTimeout \cap TimeoutSamples)

\* The head of the loop: if (elapsed >= timeoutDuration) break, else enter
\* stream->Read, ads_client.cpp:134-148
CheckDeadline ==
    /\ rcvPc = "check"
    /\ rcvPc' = IF DeadlineElapsed THEN "select" ELSE "read"
    /\ stopReason' = IF DeadlineElapsed THEN "deadline" ELSE stopReason
    /\ UNCHANGED <<ctrVars, inputVars, streamVars, sndVars, timeoutMs, elapsed, adsListBuffer,
                   currentAdsList, lateReads, result, cliVars, srvVars, taskVars>>

\* stream->Read returned true: buffer the AdsList, ads_client.cpp:148-186
ReadAdsList ==
    /\ rcvPc = "read"
    /\ s2c # << >>
    /\ adsListBuffer' = BufferPut(adsListBuffer, Head(s2c))
    /\ currentAdsList' = Head(s2c)
    /\ s2c' = Tail(s2c)
    /\ lateReads' = IF elapsed > timeoutMs THEN lateReads + 1 ELSE lateReads
    /\ rcvPc' = "check"
    /\ UNCHANGED <<ctrVars, inputVars, c2s, writesDone, callDead, sndVars, timeoutMs, elapsed,
                   result, stopReason, cliVars, srvVars, taskVars>>

\* Faulty variant of AfterStreamEnd: the loop goes round again and waits for
\* the deadline.
AfterStreamEnd_keeps_waiting == "check"

\* Where the loop goes when stream->Read returned false: break, to the
\* selection, ads_client.cpp:187-195
AfterStreamEnd == "select"

\* stream->Read returned false: break, ads_client.cpp:187-195
ReadStreamEnd ==
    /\ rcvPc = "read"
    /\ ClientReadEnds
    /\ rcvPc' = AfterStreamEnd
    /\ stopReason' = "ended"
    /\ UNCHANGED <<ctrVars, inputVars, streamVars, sndVars, timeoutMs, elapsed, adsListBuffer,
                   currentAdsList, lateReads, result, cliVars, srvVars, taskVars>>

\* The selection and the return, ads_client.cpp:213-245
ReturnResult ==
    /\ rcvPc = "select"
    /\ result' = SelectResult(adsListBuffer, currentAdsList)
    /\ rcvPc' = "done"
    /\ cliPc' = "join"
    /\ UNCHANGED <<ctrVars, inputVars, streamVars, sndVars, timeoutMs, elapsed, adsListBuffer,
                   currentAdsList, lateReads, stopReason, rpcStatus, srvVars, taskVars>>

receiveAdsListWithTimeout ==
    CollectorStart \/ CheckDeadline \/ ReadAdsList \/ ReadStreamEnd \/ ReturnResult

\* Faulty variant of SenderJoined: the sender thread is not waited for.
SenderJoined_not_awaited == TRUE

\* senderThread.join() returns when sendContextMessages has returned,
\* ads_client.cpp:36
SenderJoined == sndPc \in {"done", "failed"}

\* sender.join(), ads_client.cpp:36
JoinSender ==
    /\ cliPc = "join"
    /\ SenderJoined
    /\ cliPc' = "finish"
    /\ UNCHANGED <<ctrVars, inputVars, streamVars, sndVars, rcvVars, rpcStatus, srvVars, taskVars>>

\* stream->Finish(): blocks until the call is over, ads_client.cpp:39
Finish ==
    /\ cliPc = "finish"
    /\ CallOver
    /\ rpcStatus' = IF srvStatus # "none" THEN srvStatus ELSE "UNAVAILABLE"
    /\ cliPc' = "returned"
    /\ UNCHANGED <<ctrVars, inputVars, streamVars, sndVars, rcvVars, srvVars, taskVars>>

getAds == sendContextMessages \/ receiveAdsListWithTimeout \/ JoinSender \/ Finish

\* ------------------------------------------------------------------ server
SendRecord(adsList, who, ok, late) ==
    [version |-> adsList.version, adsList |-> adsList, by |-> who, ok |-> ok,
     afterReturn |-> late]

\* The handler has returned its Status: its locals (session_timer) and the
\* stream it was given are gone.
HandlerReturned == srvStatus # "none"

\* while (stream->Read(&client_context)) { context_count++; ...
\* ads_service_impl.cpp:26-27
ReadContext ==
    /\ srvPc = "read"
    /\ c2s # << >>
    /\ client_context' = Head(c2s)
    /\ c2s' = Tail(c2s)
    /\ context_count' = context_count + 1
    /\ srvPc' = "process"
    /\ UNCHANGED <<ctrVars, inputVars, s2c, writesDone, callDead, sndVars, rcvVars, cliVars,
                   ads_out, graceTimer, srvStatus, srvLog, throwAt, taskVars>>

\* stream->Read returned false: leave the loop and sleep 60 ms,
\* ads_service_impl.cpp:26, 181
ReadContextEnd ==
    /\ srvPc = "read"
    /\ ServerReadEnds
    /\ srvPc' = "grace"
    /\ graceTimer' = GraceDelayMs
    /\ UNCHANGED <<ctrVars, inputVars, streamVars, sndVars, rcvVars, cliVars, context_count,
                   client_context, ads_out, srvStatus, srvLog, throwAt, taskVars>>

\* The Context the handler ranks for version 1 or 2: client_context as
\* received, ads_service_impl.cpp:45, 77
RankedContext(context, count) == context

\* ad_generator_.generateAds(client_context, context_count) for the first and
\* the second Context; any later Context does nothing and the loop reads on,
\* ads_service_impl.cpp:42-45, 74-77
ProcessContext ==
    /\ srvPc = "process"
    /\ IF context_count \in {1, 2}
       THEN /\ ads_out' = generateAds(RankedContext(client_context, context_count),
                                      context_count)
            /\ srvPc' = "write"
       ELSE /\ srvPc' = "read"
            /\ UNCHANGED ads_out
    /\ UNCHANGED <<ctrVars, inputVars, streamVars, sndVars, rcvVars, cliVars, context_count,
                   client_context, graceTimer, srvStatus, srvLog, throwAt, taskVars>>

\* Faulty variant of OnProcessingError: the catch logs the error and the loop goes on.
OnProcessingError_swallowed == [pc |-> "read", status |-> "none"]

\* Where the handler goes when generateAds throws: the catch returns
\* Status(INTERNAL), ads_service_impl.cpp:167-177
OnProcessingError == [pc |-> "done", status |-> "INTERNAL"]

\* generateAds throws inside the try: ads_service_impl.cpp:41, 167-177
ProcessContextThrows ==
    /\ srvPc = "process"
    /\ context_count \in {1, 2}
    /\ srvPc' = OnProcessingError.pc
    /\ srvStatus' = OnProcessingError.status
    /\ throwAt' = context_count
    /\ UNCHANGED <<ctrVars, inputVars, streamVars, sndVars, rcvVars, cliVars, context_count,
                   client_context, ads_out, graceTimer, srvLog, taskVars>>

\* Faulty variant of AfterSend: version 3 is scheduled after every send.
AfterSend_always_schedule(count) == "spawn"

\* Where the handler goes after a send: back to Read after version 1, on to
\* scheduling version 3 after version 2, ads_service_impl.cpp:42, 74, 113
AfterSend(count) == IF count = 1 THEN "read" ELSE "spawn"

\* stream->Write(ads_v1) / stream->Write(ads_v2); the result is not looked at,
\* ads_service_impl.cpp:56, 88
WriteAdsList ==
    /\ srvPc = "write"
    /\ s2c' = IF ServerWriteOk THEN Append(s2c, ads_out) ELSE s2c
    /\ srvLog' = Append(srvLog, SendRecord(ads_out, "handler", ServerWriteOk, FALSE))
    /\ srvPc' = AfterSend(context_count)
    /\ UNCHANGED <<ctrVars, inputVars, c2s, writesDone, callDead, sndVars, rcvVars, cliVars,
                   context_count, client_context, ads_out, graceTimer, srvStatus, throwAt,
                   taskVars>>

\* Faulty variant of AfterSpawn: the thread is detached ahead of the handler's
\* own stream->Write.
AfterSpawn_then_writes == "write"

\* Faulty variant of AfterSpawn: the loop goes on to the next stream->Read.
AfterSpawn_keeps_reading == "read"

\* Where the handler goes once the thread is detached: break, out of the read
\* loop to the 60 ms sleep, ads_service_impl.cpp:165
AfterSpawn == "grace"

\* std::thread([..., client_context, &session_timer, ...]{...}).detach();
\* break; then sleep_for(60 ms), ads_service_impl.cpp:113, 163-165, 181
SpawnDeferred ==
    /\ srvPc = "spawn"
    /\ taskPc' = "sleep"
    /\ taskTimer' = DeferredDelayMs
    /\ task_context' = client_context
    /\ srvPc' = AfterSpawn
    /\ graceTimer' = GraceDelayMs
    /\ UNCHANGED <<ctrVars, inputVars, streamVars, sndVars, rcvVars, cliVars, context_count,
                   client_context, ads_out, srvStatus, srvLog, throwAt, ads_v3, taskReport,
                   taskUseAfterReturn>>

\* sleep_for(60 ms) returns; return Status::OK, ads_service_impl.cpp:181-190
ReturnOK ==
    /\ srvPc = "grace"
    /\ graceTimer = 0
    /\ srvStatus' = "OK"
    /\ srvPc' = "done"
    /\ UNCHANGED <<ctrVars, inputVars, streamVars, sndVars, rcvVars, cliVars, context_count,
                   client_context, ads_out, graceTimer, srvLog, throwAt, taskVars>>

GetAds ==
    \/ ReadContext \/ ReadContextEnd \/ ProcessContext \/ ProcessContextThrows
    \/ WriteAdsList \/ SpawnDeferred \/ ReturnOK

\* --------------------------------------------------- detached version-3 task
\* sleep_for(50 ms) returns, ads_service_impl.cpp:114
DeferredWake ==
    /\ taskPc = "sleep"
    /\ taskTimer = 0
    /\ taskPc' = "generate"
    /\ UNCHANGED <<ctrVars, inputVars, streamVars, sndVars, rcvVars, cliVars, srvVars, taskTimer,
                   task_context, ads_v3, taskReport, taskUseAfterReturn>>

\* generateAds(client_context, 3) on the captured copy, then the log line that
\* reads session_timer through the captured reference,
\* ads_service_impl.cpp:118-127
DeferredGenerate ==
    /\ taskPc = "generate"
    /\ ads_v3' = generateAds(task_context, 3)
    /\ taskUseAfterReturn' = (taskUseAfterReturn \/ HandlerReturned)
    /\ taskPc' = "write"
    /\ UNCHANGED <<ctrVars, inputVars, streamVars, sndVars, rcvVars, cliVars, srvVars, taskTimer,
                   task_context, taskReport>>

\* generateAds throws in the task: the catch logs "Error sending version 3"
\* (reading session_timer), ads_service_impl.cpp:154-162
DeferredGenerateThrows ==
    /\ taskPc = "generate"
    /\ taskReport' = "error"
    /\ taskUseAfterReturn' = (taskUseAfterReturn \/ HandlerReturned)
    /\ taskPc' = "done"
    /\ UNCHANGED <<ctrVars, inputVars, streamVars, sndVars, rcvVars, cliVars, srvVars, taskTimer,
                   task_context, ads_v3>>

\* Faulty variant of AfterDeferredWrite: a failed write is tried again.
AfterDeferredWrite_retries(ok) == IF ok THEN "complete" ELSE "write"

\* Where the task goes after stream->Write, whatever it returned: on to its
\* completion log, ads_service_impl.cpp:129-147
AfterDeferredWrite(ok) == "complete"

\* stream->Write(ads_v3) while the handler has not returned; the result is
\* not looked at, ads_service_impl.cpp:129
DeferredWrite ==
    /\ taskPc = "write"
    /\ ~HandlerReturned
    /\ s2c' = IF ServerWriteOk THEN Append(s2c, ads_v3) ELSE s2c
    /\ srvLog' = Append(srvLog, SendRecord(ads_v3, "task", ServerWriteOk, FALSE))
    /\ taskPc' = AfterDeferredWrite(ServerWriteOk)
    /\ UNCHANGED <<ctrVars, inputVars, c2s, writesDone, callDead, sndVars, rcvVars, cliVars,
                   srvPc, context_count, client_context, ads_out, graceTimer, srvStatus,
                   throwAt, taskTimer, task_context, ads_v3, taskReport,
                   taskUseAfterReturn>>

\* stream->Write(ads_v3) after the handler returned: the stream pointer
\* dangles.  Nothing can reach the client any more; the call returns or the
\* process dies (and with it the connection).  ads_service_impl.cpp:129
DeferredWriteDangling ==
    /\ taskPc = "write"
    /\ HandlerReturned
    /\ srvLog' = Append(srvLog, SendRecord(ads_v3, "task", FALSE, TRUE))
    /\ taskUseAfterReturn' = TRUE
    /\ \E outcome \in {"returns", "crash"} :
        IF outcome = "returns"
        THEN taskPc' = AfterDeferredWrite(FALSE) /\ UNCHANGED callDead
        ELSE taskPc' = "crashed" /\ callDead' = TRUE
    /\ UNCHANGED <<ctrVars, inputVars, c2s, s2c, writesDone, sndVars, rcvVars, cliVars,
                   srvPc, context_count, client_context, ads_out, graceTimer, srvStatus,
                   throwAt, taskTimer, task_context, ads_v3, taskReport>>

\* What the task logs after stream->Write returned, whatever it returned:
\* "Stream completed successfully", ads_service_impl.cpp:147-152
ReportAfterWrite(ok) == "success"

DeferredComplete ==
    /\ taskPc = "complete"
    /\ taskReport' = ReportAfterWrite(srvLog[Len(srvLog)].ok)
    /\ taskUseAfterReturn' = (taskUseAfterReturn \/ HandlerReturned)
    /\ taskPc' = "done"
    /\ UNCHANGED <<ctrVars, inputVars, streamVars, sndVars, rcvVars, cliVars, srvVars, taskTimer,
                   task_context, ads_v3>>

DeferredTask ==
    \/ DeferredWake \/ DeferredGenerate \/ DeferredGenerateThrows
    \/ DeferredWrite \/ DeferredWriteDangling \/ DeferredComplete

\* ------------------------------------------------------------- environment
\* Time passes: every running sleep_for and the collector's steady_clock
\* advance by TickMs.  The collector's clock is followed until it is past the
\* deadline.
Sleeping ==
    \/ sndPc = "sleep" /\ sndTimer > 0
    \/ taskPc = "sleep" /\ taskTimer > 0
    \/ srvPc = "grace" /\ graceTimer > 0

Clocked == rcvPc \in {"check", "read"} /\ elapsed <= timeoutMs

Tick ==
    /\ Sleeping \/ Clocked
    /\ sndTimer' = Max(0, sndTimer - TickMs)
    /\ taskTimer' = Max(0, taskTimer - TickMs)
    /\ graceTimer' = Max(0, graceTimer - TickMs)
    /\ elapsed' = IF Clocked THEN elapsed + TickMs ELSE elapsed
    /\ UNCHANGED <<ctrVars, inputVars, streamVars, sndPc, sndLog, rcvPc, timeoutMs, adsListBuffer,
                   currentAdsList, lateReads, result, stopReason, cliVars, srvPc,
                   context_count, client_context, ads_out, srvStatus, srvLog, throwAt,
                   taskPc, task_context,
                   ads_v3, taskReport, taskUseAfterReturn>>

\* The connection is lost or the call is cancelled while it is live.
Break ==
    /\ ~CallOver
    /\ callDead' = TRUE
    /\ UNCHANGED <<ctrVars, inputVars, c2s, s2c, writesDone, sndVars, rcvVars, cliVars, srvVars,
                   taskVars>>

\* ----------------------------------------------------------- specification
DefaultContext == MkContext(EmptyString, EmptyString, EmptyString)

InitStream ==
    /\ c2s = << >> /\ s2c = << >> /\ writesDone = FALSE /\ callDead = FALSE

InitInputs ==
    /\ query \in Queries /\ asin_id \in AsinIds /\ understanding \in Understandings

\* snd, rcv: where the sender thread and the collector start ("ext": that
\* part of the client is not this program's).
InitClient(snd, rcv) ==
    /\ sndPc = snd
    /\ sndTimer = 0 /\ sndLog = << >>
    /\ rcvPc = rcv
    /\ timeoutMs = 0 /\ elapsed = 0
    /\ adsListBuffer = << >> /\ currentAdsList = EmptyAdsList
    /\ lateReads = 0 /\ result = EmptyAdsList /\ stopReason = "none"
    /\ cliPc = (IF rcv = "ext" THEN "ext" ELSE "recv") /\ rpcStatus = "none"

\* Faulty variant of SessionId: the value fetch_add returns is taken as it is.
SessionId_old_value(old) == old

\* session_counter.fetch_add(1) + 1 from the value fetch_add returns,
\* ads_service_impl.cpp:13
SessionId(old) == old + 1

Sessions == 1..MaxSessions

\* The counter and the ids after the sessions of opened have entered GetAds
\* one after another.
InitCounter(opened) ==
    /\ session_counter = Cardinality(opened)
    /\ session_id = [s \in opened |-> SessionId(s - 1)]

InitServer(pc) ==
    /\ InitCounter(IF pc = "ext" THEN {} ELSE {1})
    /\ srvPc = pc /\ context_count = 0 /\ client_context = DefaultContext
    /\ ads_out = EmptyAdsList /\ graceTimer = 0 /\ srvStatus = "none"
    /\ srvLog = << >> /\ throwAt = 0
    /\ taskPc = (IF pc = "ext" THEN "ext" ELSE "idle")
    /\ taskTimer = 0 /\ task_context = DefaultContext
    /\ ads_v3 = EmptyAdsList /\ taskReport = "none" /\ taskUseAfterReturn = FALSE

\* One getAds call of AdsClient against one GetAds session of AdsServiceImpl.
Init ==
    InitInputs /\ InitStream /\ InitClient("write1", "start") /\ InitServer("read")

Next == getAds \/ GetAds \/ DeferredTask \/ Tick \/ Break

Spec == Init /\ [][Next]_vars

\* ------------------------------------------- the server and a foreign client
\* Any client may open the stream: it writes up to MaxEnvContexts Contexts of
\* its choosing and half-closes when it likes.
EnvWriteContext ==
    /\ sndPc = "ext"
    /\ ~CallOver /\ ~writesDone
    /\ Len(sndLog) < MaxEnvContexts
    /\ \E c \in Contexts :
        /\ c2s' = Append(c2s, c)
        /\ sndLog' = Append(sndLog, WriteOp(c, TRUE))
    /\ UNCHANGED <<ctrVars, inputVars, s2c, writesDone, callDead, sndPc, sndTimer, rcvVars,
                   cliVars, srvVars, taskVars>>

EnvWritesDone ==
    /\ sndPc = "ext"
    /\ ~CallOver /\ ~writesDone
    /\ writesDone' = TRUE
    /\ sndLog' = Append(sndLog, WritesDoneOp)
    /\ UNCHANGED <<ctrVars, inputVars, c2s, s2c, callDead, sndPc, sndTimer, rcvVars, cliVars,
                   srvVars, taskVars>>

SrvInit == InitInputs /\ InitStream /\ InitClient("ext", "ext") /\ InitServer("read")

SrvNext == EnvWriteContext \/ EnvWritesDone \/ GetAds \/ DeferredTask \/ Tick \/ Break

SrvSpec == SrvInit /\ [][SrvNext]_vars

\* ------------------------------------------- the client and a foreign server
\* The AdsLists a foreign server (or a reordering transport) may deliver: any
\* protocol version, in any order, with either content.
Versions == 1..3

EnvAdsLists == {generateAds(c, v) : c \in Contexts, v \in Versions}

EnvWriteAdsList ==
    /\ srvPc = "ext"
    /\ ~CallOver
    /\ Len(srvLog) < MaxEnvAdsLists
    /\ \E a \in EnvAdsLists :
        /\ s2c' = Append(s2c, a)
        /\ srvLog' = Append(srvLog, SendRecord(a, "ext", TRUE, FALSE))
    /\ UNCHANGED <<ctrVars, inputVars, c2s, writesDone, callDead, sndVars, rcvVars, cliVars,
                   srvPc, context_count, client_context, ads_out, graceTimer, srvStatus,
                   throwAt, taskVars>>

EnvReturn ==
    /\ srvPc = "ext"
    /\ ~CallOver
    /\ srvStatus' = "OK"
    /\ UNCHANGED <<ctrVars, inputVars, streamVars, sndVars, rcvVars, cliVars, srvPc,
                   context_count, client_context, ads_out, graceTimer, srvLog, throwAt,
                   taskVars>>

\* receiveAdsListWithTimeout alone on such a stream: no Context is written.
RcvInit ==
    /\ InitInputs /\ understanding = EmptyString
    /\ InitStream /\ InitClient("ext", "start") /\ InitServer("ext")

RcvNext == receiveAdsListWithTimeout \/ EnvWriteAdsList \/ EnvReturn \/ Tick

RcvSpec == RcvInit /\ [][RcvNext]_vars

\* ------------------------------------------------ the draws of the deadline
\* generateRandomTimeout called by one getAds after another on one AdsClient:
\* only the draw of each call is followed, and timeoutMs keeps the draw of
\* the call before until the next one.
DrawTimeout == CollectorStartWith(generateRandomTimeout)

\* The next getAds reaches receiveAdsListWithTimeout, ads_client.cpp:33
NextGetAds ==
    /\ rcvPc = "check"
    /\ rcvPc' = "start"
    /\ UNCHANGED <<ctrVars, inputVars, streamVars, sndVars, timeoutMs, elapsed, adsListBuffer,
                   currentAdsList, lateReads, result, stopReason, cliVars, srvVars,
                   taskVars>>

DrawNext == DrawTimeout \/ NextGetAds

DrawSpec == RcvInit /\ [][DrawNext]_vars

\* ------------------------------------------------- sessions on one process
\* Session s enters GetAds: long session_id = session_counter.fetch_add(1) + 1,
\* one atomic read-modify-write, ads_service_impl.cpp:13
OpenSession(s) ==
    /\ s \notin DOMAIN session_id
    /\ session_id' = [t \in DOMAIN session_id \cup {s} |->
                        IF t = s THEN SessionId(session_counter) ELSE session_id[t]]
    /\ session_counter' = session_counter + 1
    /\ UNCHANGED <<inputVars, streamVars, sndVars, rcvVars, cliVars, srvVars, taskVars>>

\* Sessions entering GetAds in any order; what each does on its own stream
\* is not followed.
CounterInit ==
    /\ InitInputs /\ understanding = EmptyString
    /\ InitStream /\ InitClient("ext", "ext") /\ InitServer("ext")

CounterNext == \E s \in Sessions : OpenSession(s)

CounterSpec == CounterInit /\ [][CounterNext]_vars

\* ================================================================== claims
IsPrefix(s, t) == Len(s) <= Len(t) /\ \A i \in 1..Len(s) : s[i] = t[i]

\* No generation failed, no write failed and the call is alive.
NoFailure ==
    /\ ~callDead /\ throwAt = 0 /\ taskReport # "error"
    /\ \A i \in DOMAIN sndLog : sndLog[i].ok
    /\ \A i \in DOMAIN srvLog : srvLog[i].ok

\* C1: no AdsList whose read completes strictly after the cutover deadline
\* has elapsed is put into the buffer.
C1_NoArrivalAfterDeadline == [][ReadAdsList => elapsed <= timeoutMs]_vars

\* C2: when the collector returns with a non-empty buffer, what it returns is
\* the buffer's entry with the highest version, whatever arrived last.
C2_ReturnsMaxVersion ==
    (rcvPc = "done" /\ DOMAIN adsListBuffer # {}) =>
        /\ result.version \in DOMAIN adsListBuffer
        /\ \A v \in DOMAIN adsListBuffer : v <= result.version
        /\ result = adsListBuffer[result.version]

\* The collector returned and the AdsList that arrived last has a lower
\* version than another one in the buffer.
C2_Witness ==
    /\ rcvPc = "done"
    /\ Cardinality(DOMAIN adsListBuffer) >= 2
    /\ \E v \in DOMAIN adsListBuffer : currentAdsList.version < v

\* C3: once the deadline has elapsed the collector is not left waiting: it
\* can take its next step (stop collecting) without an arrival and without
\* the end of the stream.
C3_DeadlineEndsWait ==
    (rcvPc \in {"check", "read"} /\ DeadlineElapsed) =>
        ENABLED receiveAdsListWithTimeout

\* C4: the collector returns version 0 with no ads when the buffer is empty,
\* and returns version 0 in that case only.
C4_EmptyResultIffEmptyBuffer ==
    rcvPc = "done" =>
        /\ DOMAIN adsListBuffer = {} => (result.version = 0 /\ result.ads = << >>)
        /\ result.version = 0 => DOMAIN adsListBuffer = {}

\* The collector returned with nothing buffered.
C4_Witness == rcvPc = "done" /\ DOMAIN adsListBuffer = {} /\ result.version = 0

\* C5 (its last clause, under the claim's conditions): with a deadline longer
\* than the two 50 ms delays together and no failure, the end of the stream
\* does not stop collection before version 3 is buffered.
C5_ReturnNeverCutsOffVersion3 ==
    ( /\ rcvPc = "done" /\ stopReason = "ended"
      /\ timeoutMs > ContextDelayMs + DeferredDelayMs
      /\ NoFailure ) =>
        (3 \in DOMAIN adsListBuffer /\ result.version = 3)

\* C6: the sends of a session are in strictly increasing version order;
\* version 2 has version 1 before it and version 3 has version 2 before it.
C6_SendsInVersionOrder ==
    \A j \in DOMAIN srvLog :
        /\ \A i \in 1..(j - 1) : srvLog[i].version < srvLog[j].version
        /\ srvLog[j].version \in {2, 3} =>
              \E i \in 1..(j - 1) : srvLog[i].version = srvLog[j].version - 1

\* All three versions were sent, the third by the deferred task.
C6_Witness == Len(srvLog) = 3 /\ srvLog[3].by = "task" /\ srvLog[3].version = 3

\* C7: while no write has failed the sender's stream operations are a prefix
\* of: Write (query, asin_id, ""), Write (query, asin_id, understanding),
\* WritesDone; a sender that finished performed exactly these.
C7_Expected ==
    << [op |-> "Write", context |-> MkContext(query, asin_id, EmptyString), ok |-> TRUE],
       [op |-> "Write", context |-> MkContext(query, asin_id, understanding), ok |-> TRUE],
       [op |-> "WritesDone", context |-> << >>, ok |-> TRUE] >>

C7_SenderSequence ==
    /\ (\A i \in DOMAIN sndLog : sndLog[i].ok) => IsPrefix(sndLog, C7_Expected)
    /\ (sndPc = "done" \/ writesDone) => sndLog = C7_Expected

\* The sender finished for a caller that passed an understanding.
C7_Witness == sndPc = "done" /\ understanding # EmptyString

\* C8: after a failed write the sender does nothing more on the stream (the
\* failed write is its last operation, no WritesDone), and the collector is
\* not stopped by it: it has returned or can take its next step.
C8_SenderFailed == \E i \in DOMAIN sndLog : ~sndLog[i].ok

C8_AbortOnWriteFailure ==
    C8_SenderFailed =>
        /\ \A i \in DOMAIN sndLog : sndLog[i].ok <=> i < Len(sndLog)
        /\ \A i \in DOMAIN sndLog : sndLog[i].op = "Write"
        /\ ~writesDone
        /\ ~ENABLED sendContextMessages
        /\ rcvPc = "done" \/ ENABLED receiveAdsListWithTimeout

\* The write of context2 failed and the collector returned version 1.
C8_Witness ==
    /\ C8_SenderFailed /\ Len(sndLog) = 2
    /\ rcvPc = "done" /\ result.version = 1

\* C9: the version-1 AdsList sent is the one ranked with an empty
\* understanding, whatever understanding the first Context carried.
C9_Version1IgnoresUnderstanding ==
    (Len(srvLog) >= 1 /\ Len(sndLog) >= 1 /\ sndLog[1].op = "Write") =>
        srvLog[1].adsList =
            generateAds(MkContext(sndLog[1].context.query,
                                  sndLog[1].context.asin_id, EmptyString), 1)

\* C10: when generateAds threw at the first or second Context, the session
\* ended with INTERNAL, nothing was sent for that Context, the handler takes
\* no further step and no deferred task exists.
C10_GenerationFailureEndsSession ==
    throwAt # 0 =>
        /\ srvStatus = "INTERNAL" /\ srvPc = "done"
        /\ context_count = throwAt
        /\ Len(srvLog) = throwAt - 1
        /\ \A i \in DOMAIN srvLog : srvLog[i].version < throwAt
        /\ taskPc = "idle"
        /\ ~ENABLED GetAds

\* generateAds threw at the second Context while a third one is waiting.
C10_Witness == throwAt = 2 /\ c2s # << >>

\* C11: when a send of version 1 or 2 by the handler failed, the status the
\* handler returns is not OK.
C11_FailedSendFailsSession ==
    ( /\ HandlerReturned
      /\ \E i \in DOMAIN srvLog : srvLog[i].by = "handler" /\ ~srvLog[i].ok ) =>
        srvStatus # "OK"

\* C12: when the read loop ended with the Contexts half-closed after zero or
\* one Context, the handler is past its loop, returns OK, and no deferred
\* task exists and no version 3 is sent.
C12_EarlyCloseNoVersion3 ==
    (writesDone /\ context_count < 2 /\ throwAt = 0 /\ srvPc \in {"grace", "done"}) =>
        /\ srvPc = "done" => srvStatus = "OK"
        /\ taskPc = "idle"
        /\ \A i \in DOMAIN srvLog : srvLog[i].version # 3

\* The session returned OK after one Context and a clean half-close.
C12_Witness ==
    /\ srvPc = "done" /\ srvStatus = "OK" /\ context_count = 1
    /\ writesDone /\ ~callDead /\ Len(srvLog) = 1

\* C13: when stream->Read reported the end of the stream the collector left
\* its loop at once, whatever time is left to the deadline, and what it
\* returns is selected from the buffer as it then is.
C13_StreamEndStopsCollection ==
    stopReason = "ended" =>
        /\ rcvPc \in {"select", "done"}
        /\ rcvPc = "done" =>
              result = IF DOMAIN adsListBuffer = {}
                       THEN EmptyAdsList
                       ELSE adsListBuffer[MaxVersion(adsListBuffer)]

\* The stream ended with time left to the deadline and the collector returned
\* the best of a buffer that lacks version 3.
C13_Witness ==
    /\ rcvPc = "done" /\ stopReason = "ended" /\ elapsed < timeoutMs
    /\ DOMAIN adsListBuffer = {1, 2} /\ result.version = 2

\* C14: stream->Finish is reached only after the collector has returned and
\* the sender thread has ended, and from then on the sender performs no
\* operation on the stream.
C14_FinishAfterBoth ==
    cliPc \in {"finish", "returned"} =>
        /\ rcvPc = "done"
        /\ sndPc \in {"done", "failed"}
        /\ ~ENABLED sendContextMessages

\* getAds returned after a sender that half-closed and a collector that
\* returned a buffered AdsList.
C14_Witness ==
    /\ cliPc = "returned" /\ sndPc = "done" /\ writesDone
    /\ rcvPc = "done" /\ result.version >= 1

\* C15: when the deadline stopped the collector, the AdsLists that arrived
\* afterwards have been read by the time stream->Finish completes the call:
\* none is left unread on the stream.
C15_DrainsAfterCutover ==
    [][(Finish /\ stopReason = "deadline" /\ NoFailure) => s2c = << >>]_vars

\* C16: the AdsLists that have arrived, in arrival order, and what the
\* collection loop and the selection make of a sequence of arrivals.
C16_Arrived ==
    [i \in 1..(Len(srvLog) - Len(s2c)) |-> srvLog[i].adsList]

RECURSIVE C16_Collect(_)
C16_Collect(arrivals) ==
    IF arrivals = << >>
    THEN << >>
    ELSE BufferPut(C16_Collect(SubSeq(arrivals, 1, Len(arrivals) - 1)),
                   arrivals[Len(arrivals)])

C16_Select(arrivals) ==
    SelectResult(C16_Collect(arrivals), arrivals[Len(arrivals)])

C16_DistinctVersions(arrivals) ==
    \A i, j \in DOMAIN arrivals : arrivals[i].version = arrivals[j].version => i = j

\* C16: when the AdsLists that arrived have pairwise distinct versions, what
\* the collector returns is what it would return had they arrived in any
\* other order: the arrival with the highest version.
C16_OrderIndependent ==
    (rcvPc = "done" /\ C16_Arrived # << >> /\ C16_DistinctVersions(C16_Arrived)) =>
        /\ \A p \in Permutations(DOMAIN C16_Arrived) :
              C16_Select([i \in DOMAIN C16_Arrived |-> C16_Arrived[p[i]]]) = result
        /\ \E i \in DOMAIN C16_Arrived :
              /\ result = C16_Arrived[i]
              /\ \A j \in DOMAIN C16_Arrived : C16_Arrived[j].version <= result.version

\* Three AdsLists arrived highest version first and the collector returned
\* the first arrival.
C16_Witness ==
    /\ rcvPc = "done" /\ Len(C16_Arrived) = 3
    /\ C16_Arrived[1].version = 3 /\ C16_Arrived[2].version = 1
    /\ C16_Arrived[3].version = 2
    /\ result = C16_Arrived[1]

\* C17: every deadline drawn is an integer of 30..120 ms, and whatever was
\* drawn for the call before, each value of 30..120, both endpoints among
\* them, can be drawn for the next call.
C17_TimeoutRange ==
    /\ rcvPc = "check" =>
          (timeoutMs \in Int /\ MinTimeoutMs <= timeoutMs /\ timeoutMs <= MaxTimeoutMs)
    /\ rcvPc = "start" =>
          \A t \in MinTimeoutMs..MaxTimeoutMs : ENABLED (DrawTimeout /\ timeoutMs' = t)

\* The lower endpoint was drawn for one call and the next call is about to
\* draw.
C17_Witness == rcvPc = "start" /\ timeoutMs = MinTimeoutMs

\* C18: the deferred task makes no access to what the handler owns (the
\* session_timer it captured by reference, the session's stream) after the
\* handler has returned.
C18_TaskWithinHandlerLifetime == ~taskUseAfterReturn

\* C19: a failed send is the last send of its session, and after a failed
\* send of version 2 no deferred task exists.
C19_NoSendAfterFailedSend ==
    /\ \A i \in DOMAIN srvLog : ~srvLog[i].ok => i = Len(srvLog)
    /\ (\E i \in DOMAIN srvLog : srvLog[i].version = 2 /\ ~srvLog[i].ok) =>
          taskPc = "idle"

\* C20: a deferred task whose write of version 3 failed on a dead call has
\* reported an error when it ends, and has written once.
C20_TaskReportsFailedWrite ==
    ( /\ taskPc = "done"
      /\ \E i \in DOMAIN srvLog :
            srvLog[i].by = "task" /\ ~srvLog[i].ok /\ ~srvLog[i].afterReturn ) =>
        /\ taskReport = "error"
        /\ Cardinality({i \in DOMAIN srvLog : srvLog[i].by = "task"}) = 1

\* C21: when the read loop ended before two Contexts because the call died,
\* without a half-close by the client, the status the handler returns is not
\* the OK of a clean close.
C21_TransportErrorFailsSession ==
    ( /\ srvPc = "done" /\ throwAt = 0 /\ context_count < 2
      /\ callDead /\ ~writesDone ) =>
        srvStatus # "OK"

\* C22: the handler reads at most two Contexts: once the second has been
\* read no stream->Read of a Context happens again, whatever waits on the
\* stream, and nothing with a version above 3 is sent.
C22_NoReadAfterSecondContext ==
    /\ context_count <= 2
    /\ context_count = 2 => ~ENABLED (ReadContext \/ ReadContextEnd)
    /\ \A i \in DOMAIN srvLog : srvLog[i].version <= 3

\* The session returned OK after two Contexts with a third left unread.
C22_Witness ==
    /\ srvPc = "done" /\ srvStatus = "OK" /\ context_count = 2
    /\ Len(c2s) = 1 /\ Len(srvLog) = 3

\* The sends attempted in a session have pairwise different versions, all of
\* 1..3, and at most one is the deferred task's.
C23_SendsOnce ==
    /\ \A i, j \in DOMAIN srvLog : srvLog[i].version = srvLog[j].version => i = j
    /\ \A i \in DOMAIN srvLog : srvLog[i].version \in {1, 2, 3}
    /\ Cardinality({i \in DOMAIN srvLog : srvLog[i].by = "task"}) <= 1

\* C23: at most one send is attempted for each of the versions 1, 2, 3 and
\* none for another version; a task is spawned only when none exists, it
\* sends at most once, and no step of it changes the handler's position, its
\* Context count or the status it returns.
C23_OneTaskNoEffectOnSession ==
    /\ [](C23_SendsOnce)
    /\ [][SpawnDeferred => taskPc = "idle"]_vars
    /\ [][DeferredTask =>
            UNCHANGED <<srvPc, context_count, client_context, srvStatus>>]_vars

\* The task's send of version 3 failed on a dead call, the task ended and the
\* handler returned OK.
C23_Witness ==
    /\ taskPc = "done" /\ srvStatus = "OK" /\ Len(srvLog) = 3
    /\ srvLog[3].by = "task" /\ ~srvLog[3].ok /\ ~srvLog[3].afterReturn

\* The place of the last arrival with version v.
C24_LastArrival(v) ==
    CHOOSE i \in DOMAIN C16_Arrived :
        /\ C16_Arrived[i].version = v
        /\ \A j \in DOMAIN C16_Arrived : C16_Arrived[j].version = v => j <= i

\* C24: the buffer has one entry for each version that arrived and no other,
\* the entry for version v is the last arrival with version v, and putting
\* an AdsList a second time changes nothing.
C24_LastWriteWins ==
    /\ DOMAIN adsListBuffer = {C16_Arrived[i].version : i \in DOMAIN C16_Arrived}
    /\ \A v \in DOMAIN adsListBuffer :
          /\ adsListBuffer[v].version = v
          /\ adsListBuffer[v] = C16_Arrived[C24_LastArrival(v)]
    /\ \A i \in DOMAIN srvLog :
          BufferPut(BufferPut(adsListBuffer, srvLog[i].adsList), srvLog[i].adsList)
              = BufferPut(adsListBuffer, srvLog[i].adsList)

\* Two different AdsLists of one version arrived and the buffer holds the
\* second.
C24_Witness ==
    /\ Len(C16_Arrived) = 2
    /\ C16_Arrived[1].version = C16_Arrived[2].version
    /\ C16_Arrived[1] # C16_Arrived[2]
    /\ adsListBuffer = (C16_Arrived[2].version :> C16_Arrived[2])

\* The ids handed out so far are pairwise different, they are exactly 1..n
\* for the n sessions opened, and the counter is n.
C25_IdsDistinct ==
    /\ \A s, t \in DOMAIN session_id : session_id[s] = session_id[t] => s = t
    /\ {session_id[s] : s \in DOMAIN session_id} = 1..Cardinality(DOMAIN session_id)
    /\ session_counter = Cardinality(DOMAIN session_id)

\* C25: sessions opened in any order get pairwise different ids, the ids
\* handed out are exactly 1..n, and the counter never decreases.
C25_SessionIds ==
    /\ [](C25_IdsDistinct)
    /\ [][session_counter' >= session_counter]_vars

\* All sessions are open and session 1 was the last to enter GetAds.
C25_Witness ==
    /\ DOMAIN session_id = Sessions
    /\ session_id[1] = MaxSessions

\* Some thread or the clock can take a step.  (The steps in which generateAds
\* throws come first: they are enabled wherever the steps that rank are.)
C26_CanStep ==
    ENABLED (ProcessContextThrows \/ DeferredGenerateThrows
             \/ getAds \/ GetAds \/ DeferredTask \/ Tick)

\* What is left to do: positions of the five threads, the sleeps, the time to
\* the deadline, the AdsLists still to be written or read, and the one loss
\* of the connection that can still happen.
C26_Left ==
    LET snd == CASE sndPc = "write1" -> 4 [] sndPc = "sleep" -> 3
                 [] sndPc = "write2" -> 2 [] sndPc = "writesdone" -> 1
                 [] OTHER -> 0
        rcv == CASE rcvPc = "start" -> 5 [] rcvPc = "check" -> 4
                 [] rcvPc = "read" -> 3 [] rcvPc = "select" -> 1
                 [] OTHER -> 0
        cli == CASE cliPc = "recv" -> 3 [] cliPc = "join" -> 2
                 [] cliPc = "finish" -> 1 [] OTHER -> 0
        srv == CASE srvPc = "read" -> 10 - 3 * context_count
                 [] srvPc = "process" -> 12 - 3 * context_count
                 [] srvPc = "write" -> 11 - 3 * context_count
                 [] srvPc = "spawn" -> 4 [] srvPc = "grace" -> 1
                 [] OTHER -> 0
        task == CASE taskPc = "idle" -> 5 [] taskPc = "sleep" -> 4
                  [] taskPc = "generate" -> 3 [] taskPc = "write" -> 2
                  [] taskPc = "complete" -> 1 [] OTHER -> 0
        adsLists == Len(s2c) + (3 - Len(srvLog))
        clock == IF elapsed <= timeoutMs THEN timeoutMs - elapsed + TickMs ELSE 0
        live == IF CallOver THEN 0 ELSE 1
    IN  1000 * (snd + rcv + cli + srv + task + 2 * adsLists + live)
          + sndTimer + taskTimer + graceTimer + clock

C27_WritesNeverOverlap ==
    /\ [](~(srvPc = "write" /\ taskPc = "write"))
    /\ [][WriteAdsList => taskPc = "idle"]_vars
    /\ [][(DeferredWrite \/ DeferredWriteDangling) => srvPc \in {"grace", "done"}]_vars

\* The task has written version 3 to a live call while the handler sleeps.
C27_Witness ==
    /\ srvPc = "grace" /\ taskPc = "complete" /\ Len(srvLog) = 3
    /\ srvLog[3].by = "task" /\ srvLog[3].ok
    /\ \A i \in 1..2 : srvLog[i].by = "handler"

\* C28: at most one AdsList whose read completed after the deadline had
\* elapsed is put into the buffer in a run of the collector.
C28_AtMostOneLateRead == lateReads <= 1

\* The collector returned after one read that completed past the deadline.
C28_Witness == rcvPc = "done" /\ lateReads = 1 /\ elapsed > timeoutMs

=============================================================================
